---- MODULE Spec2Model ----
(***************************************************************************)
(* Model of src/network.py: class Network, the fully convolutional network *)
(* for neural-guided scene coordinate regression.                          *)
(*                                                                         *)
(* The constructor (__init__) and the forward pass (forward) are modelled  *)
(* statement by statement; the position of a forward call is the number of *)
(* the source line it executes next.                                       *)
(*                                                                         *)
(* A tensor is a record [shape, val, grad]:                                *)
(*   shape  the torch shape, <<B, C, H, W>> (or <<N>> after view(-1), <<>> *)
(*          for a 0-dim tensor), with the true channel counts 3..512;      *)
(*   val    the values, val[b][c][y][x]; values are kept for the first     *)
(*          ValCh channels of a tensor only;                               *)
(*   grad   the autograd graph: the layers whose parameters are reached by *)
(*          a backward pass that starts at the tensor.                     *)
(* Convolution weights are drawn from the family "centre tap w, all other  *)
(* taps 0, channel i reads channel i, one bias b per layer", so that all   *)
(* arithmetic is exact integer arithmetic.  Log-space values (the guidance *)
(* head after logsigmoid) are carried as the exact positive rational       *)
(* <<n, d>> of their exponential, base 2 standing for e: log-space         *)
(* subtraction is rational division, logsumexp is rational addition.       *)
(***************************************************************************)
EXTENDS Integers, Sequences, FiniteSets, TLC

\* ---------------------------------------------------------------- bounds
\* largest batch size of an input
MaxBatch == 2
\* largest height and width of an input
MaxSide == 16
\* largest channel count of an input
MaxChan == 4
\* number of channels of a tensor whose values are kept
ValCh == 3
\* number of writes the caller makes to its own mean vector
MaxWrites == 1

\* ------------------------------------------------------- program constants
OUTPUT_SUBSAMPLE == 8

\* ------------------------------------------------------------ arithmetic
Min(a, b) == IF a <= b THEN a ELSE b

Max(a, b) == IF a >= b THEN a ELSE b

RECURSIVE GCD(_, _)
GCD(a, b) == IF b = 0 THEN a ELSE GCD(b, a % b)

RECURSIVE Pow2(_)
Pow2(n) == IF n = 0 THEN 1 ELSE 2 * Pow2(n - 1)

\* positive rationals <<n, d>> in lowest terms
RNorm(r) == LET g == GCD(r[1], r[2]) IN <<r[1] \div g, r[2] \div g>>

RAdd(p, q) == RNorm(<<p[1] * q[2] + q[1] * p[2], p[2] * q[2]>>)

RDiv(p, q) == RNorm(<<p[1] * q[2], p[2] * q[1]>>)

RECURSIVE RSum(_)
RSum(s) == IF Len(s) = 1 THEN s[1] ELSE RAdd(s[1], RSum(Tail(s)))

ROne == <<1, 1>>

\* ------------------------------------------------------------ the layers
\* nn.Conv2d(in_channels, out_channels, kernel_size, stride, padding)
Conv2d(cin, cout, k, s, p) == [cin |-> cin, cout |-> cout, k |-> k, s |-> s, p |-> p]

StemLayers == {"conv1", "conv2", "conv3", "conv4"}

ResLayers == {"res1_conv1", "res1_conv2", "res1_conv3",
              "res2_conv1", "res2_conv2", "res2_conv3", "res2_skip",
              "res3_conv1", "res3_conv2", "res3_conv3"}

HeadALayers == {"fc1", "fc2", "fc3"}

HeadBLayers == {"fc1_1", "fc2_1", "fc3_1"}

Layers == StemLayers \cup ResLayers \cup HeadALayers \cup HeadBLayers

LayerSpec(l) ==
  CASE l = "conv1"      -> Conv2d(3, 32, 3, 1, 1)
    [] l = "conv2"      -> Conv2d(32, 64, 3, 2, 1)
    [] l = "conv3"      -> Conv2d(64, 128, 3, 2, 1)
    [] l = "conv4"      -> Conv2d(128, 256, 3, 2, 1)
    [] l = "res1_conv1" -> Conv2d(256, 256, 3, 1, 1)
    [] l = "res1_conv2" -> Conv2d(256, 256, 1, 1, 0)
    [] l = "res1_conv3" -> Conv2d(256, 256, 3, 1, 1)
    [] l = "res2_conv1" -> Conv2d(256, 512, 3, 1, 1)
    [] l = "res2_conv2" -> Conv2d(512, 512, 1, 1, 0)
    [] l = "res2_conv3" -> Conv2d(512, 512, 3, 1, 1)
    [] l = "res2_skip"  -> Conv2d(256, 512, 1, 1, 0)
    [] l = "res3_conv1" -> Conv2d(512, 512, 3, 1, 1)
    [] l = "res3_conv2" -> Conv2d(512, 512, 1, 1, 0)
    [] l = "res3_conv3" -> Conv2d(512, 512, 3, 1, 1)
    [] l = "fc1"        -> Conv2d(512, 512, 1, 1, 0)
    [] l = "fc2"        -> Conv2d(512, 512, 1, 1, 0)
    [] l = "fc3"        -> Conv2d(512, 3, 1, 1, 0)
    [] l = "fc1_1"      -> Conv2d(512, 512, 1, 1, 0)
    [] l = "fc2_1"      -> Conv2d(512, 512, 1, 1, 0)
    [] l = "fc3_1"      -> Conv2d(512, 1, 1, 1, 0)

\* ------------------------------------------------------------ tensors
\* a local variable that holds no tensor yet
NoT == [shape |-> <<>>, val |-> <<>>, grad |-> {}]

\* channels of a tensor with c channels whose values are kept
Kept(c) == Min(c, ValCh)

\* the input image batch: pixel values in -2..2, drawn by a seed
Image(seed, B, C, H, W) ==
  [shape |-> <<B, C, H, W>>,
   val   |-> [b \in 1..B |-> [c \in 1..Kept(C) |-> [y \in 1..H |-> [x \in 1..W |->
                ((seed + b + 2 * c + y + x) % 5) - 2]]]],
   grad  |-> {}]

\* torch's output size of a convolution along one axis:
\* floor((n + 2p - k) / s) + 1
ConvOutNoPad(n, L) == ((n - L.k) \div L.s) + 1

ConvOutCeil(n, L) == ((n + 2 * L.p - L.k + L.s - 1) \div L.s) + 1

ConvOut(n, L) == ((n + 2 * L.p - L.k) \div L.s) + 1

\* conv2d refuses an input whose channel count is not the layer's in_channels
ChannelsAny(l, t) == TRUE

ChannelsMatch(l, t) == t.shape[2] = LayerSpec(l).cin

\* the input row (column) under the centre tap of output row (column) i,
\* 0 when the tap lies in the zero padding
Tap(i, n, L) ==
  LET j == L.s * (i - 1) + ((L.k - 1) \div 2) - L.p + 1
  IN  IF j >= 1 /\ j <= n THEN j ELSE 0

\* self.<l>(t): the convolution of layer l with parameters P
Conv(l, P, t) ==
  LET L  == LayerSpec(l)
      B  == t.shape[1]
      H  == t.shape[3]
      W  == t.shape[4]
      Ho == ConvOut(H, L)
      Wo == ConvOut(W, L)
      ci == Kept(t.shape[2])
  IN  [shape |-> <<B, L.cout, Ho, Wo>>,
       val   |-> [b \in 1..B |-> [c \in 1..Kept(L.cout) |-> [y \in 1..Ho |-> [x \in 1..Wo |->
                    LET ty == Tap(y, H, L)
                        tx == Tap(x, W, L)
                    IN  P[l].b + (IF c <= ci /\ ty > 0 /\ tx > 0
                                  THEN P[l].w * t.val[b][c][ty][tx] ELSE 0)]]]],
       grad  |-> t.grad \cup {l}]

\* F.relu(t)
Relu(t) ==
  [t EXCEPT !.val = [b \in DOMAIN t.val |-> [c \in DOMAIN t.val[b] |->
     [y \in DOMAIN t.val[b][c] |-> [x \in DOMAIN t.val[b][c][y] |->
        Max(0, t.val[b][c][y][x])]]]]]

\* s + t, elementwise, of two tensors of the same shape
Add(s, t) ==
  [shape |-> s.shape,
   val   |-> [b \in DOMAIN s.val |-> [c \in DOMAIN s.val[b] |->
     [y \in DOMAIN s.val[b][c] |-> [x \in DOMAIN s.val[b][c][y] |->
        s.val[b][c][y][x] + t.val[b][c][y][x]]]]],
   grad  |-> s.grad \cup t.grad]

\* t.detach(): the same values, cut from the autograd graph
DetachKeepsGraph(t) == t

Detach(t) == [t EXCEPT !.grad = {}]

\* index of element (b, c, y, x) of a contiguous B x C x H x W tensor in its
\* flattened view (row-major, 1-based)
FlatIndex(b, c, y, x, C, H, W) == (((b - 1) * C + (c - 1)) * H + (y - 1)) * W + x

\* F.logsigmoid(t): log(1 / (1 + exp(-v))), as the rational of its exponential
Sigmoid(v) == IF v >= 0 THEN <<Pow2(v), Pow2(v) + 1>> ELSE <<1, 1 + Pow2(-v)>>

LogSigmoid(t) ==
  [t EXCEPT !.val = [b \in DOMAIN t.val |-> [c \in DOMAIN t.val[b] |->
     [y \in DOMAIN t.val[b][c] |-> [x \in DOMAIN t.val[b][c][y] |->
        Sigmoid(t.val[b][c][y][x])]]]]]

\* t.view(-1): the flattened view of a 4D tensor
ViewFlat(t) ==
  LET B == t.shape[1]
      C == Kept(t.shape[2])
      H == t.shape[3]
      W == t.shape[4]
  IN  [shape |-> <<B * t.shape[2] * H * W>>,
       val   |-> [i \in 1..(B * C * H * W) |->
                    t.val[((i - 1) \div (C * H * W)) + 1]
                         [(((i - 1) \div (H * W)) % C) + 1]
                         [(((i - 1) \div W) % H) + 1]
                         [((i - 1) % W) + 1]],
       grad  |-> t.grad]

\* torch.logsumexp(t, dim=0) of a 1D tensor: a 0-dim tensor
LogMaxExp(t) ==
  [shape |-> <<>>,
   val   |-> CHOOSE m \in {t.val[i] : i \in DOMAIN t.val} :
               \A i \in DOMAIN t.val : t.val[i][1] * m[2] <= m[1] * t.val[i][2],
   grad  |-> t.grad]

LogSumExp(t) == [shape |-> <<>>, val |-> RSum(t.val), grad |-> t.grad]

\* t.expand(n) of a 0-dim tensor
Expand(t, n) == [shape |-> <<n>>, val |-> [i \in 1..n |-> t.val], grad |-> t.grad]

\* s - t, elementwise, of two 1D log-space tensors of the same length
LogSub(s, t) ==
  [shape |-> s.shape,
   val   |-> [i \in DOMAIN s.val |-> RDiv(s.val[i], t.val[i])],
   grad  |-> s.grad \cup t.grad]

\* t.view(B, C, H, W) of a 1D tensor; torch refuses a view of another size
ViewOk(t, B, C, H, W) == t.shape[1] = B * C * H * W

View4(t, B, C, H, W) ==
  [shape |-> <<B, C, H, W>>,
   val   |-> [b \in 1..B |-> [c \in 1..Kept(C) |-> [y \in 1..H |-> [x \in 1..W |->
                t.val[FlatIndex(b, c, y, x, Kept(C), H, W)]]]]],
   grad  |-> t.grad]

\* sc[:, k] += m (k counted from 1): the statement's effect on both operands
InPlaceAddSwapped(sc, mean, k) ==
  [sc |-> sc, mean |-> [mean EXCEPT ![k] = @ + sc.val[1][k][1][1]]]

InPlaceAdd(sc, mean, k) ==
  [sc   |-> [sc EXCEPT !.val = [b \in DOMAIN sc.val |-> [c \in DOMAIN sc.val[b] |->
               [y \in DOMAIN sc.val[b][c] |-> [x \in DOMAIN sc.val[b][c][y] |->
                  IF c = k THEN sc.val[b][c][y][x] + mean[k]
                           ELSE sc.val[b][c][y][x]]]]]],
   mean |-> mean]

\* mean.clone(): a tensor with storage of its own, holding the same values
AliasTensor(h, r) == [heap |-> h, ref |-> r]

CloneTensor(h, r) == [heap |-> Append(h, h[r]), ref |-> Len(h) + 1]

\* torch.tensor(mean.size()): a new 1D tensor holding the size of mean
SizeTensor(h, r) == [heap |-> Append(h, <<Len(h[r])>>), ref |-> Len(h) + 1]

\* --------------------------------------------------------- the statements
\* the lines of forward, in the order they execute
Lines == <<62, 65, 66, 67, 68, 70, 71, 72, 74, 76, 77, 78, 80, 82, 83, 84, 86,
           89, 90, 91, 93, 94, 95, 98, 99, 100, 103, 104, 106, 107, 109, 110, 112>>

NextLine(n) == Lines[(CHOOSE i \in 1..Len(Lines) : Lines[i] = n) + 1]

\* dst = [F.relu](self.layer(src[.detach()]))
ConvLines == {65, 66, 67, 68, 70, 71, 72, 76, 77, 78, 82, 83, 84, 89, 90, 91, 98, 99, 100}

ConvLayer(n) ==
  CASE n = 65 -> "conv1"      [] n = 66 -> "conv2"      [] n = 67 -> "conv3"
    [] n = 68 -> "conv4"
    [] n = 70 -> "res1_conv1" [] n = 71 -> "res1_conv2" [] n = 72 -> "res1_conv3"
    [] n = 76 -> "res2_conv1" [] n = 77 -> "res2_conv2" [] n = 78 -> "res2_conv3"
    [] n = 82 -> "res3_conv1" [] n = 83 -> "res3_conv2" [] n = 84 -> "res3_conv3"
    [] n = 89 -> "fc1"        [] n = 90 -> "fc2"        [] n = 91 -> "fc3"
    [] n = 98 -> "fc1_1"      [] n = 99 -> "fc2_1"      [] n = 100 -> "fc3_1"

ConvSrc(n) ==
  CASE n \in {70, 76, 82, 89, 98} -> "res"
    [] n \in {90, 91}             -> "sc"
    [] n \in {99, 100}            -> "log_ng"
    [] OTHER                      -> "x"

ConvDst(n) ==
  CASE n = 68            -> "res"
    [] n \in {89, 90, 91}  -> "sc"
    [] n \in {98, 99, 100} -> "log_ng"
    [] OTHER               -> "x"

\* the lines whose convolution is followed by F.relu
HasReluNotLine78(n) == n \notin {78, 91, 100}

HasRelu(n) == n \notin {91, 100}

\* the line whose convolution reads a detached tensor
IsDetached(n) == n = 98

\* res = res + x, and on line 80 res = self.res2_skip(res) + x
AddLines == {74, 80, 86}

\* sc[:, k] += self.mean[k]
MeanLines == {93, 94, 95}

MeanIndexOffByOne(n) == n - 91

MeanIndex(n) == n - 92

\* ------------------------------------------------------------- the inputs
\* parameter values the layers can hold after construction (nn.Conv2d draws
\* them at random): centre-tap weight w and bias b of every layer
Param(w, b) == [w |-> w, b |-> b]

ParamsA ==
  [l \in Layers |->
     CASE l = "res2_conv3" -> Param(-1, 1)
       [] l = "res3_conv1" -> Param(0, 0)
       [] l = "fc3"        -> Param(1, -1)
       [] l = "fc3_1"      -> Param(1, -2)
       [] OTHER            -> Param(1, 0)]

ParamsB ==
  [l \in Layers |->
     CASE l = "res1_conv1" -> Param(0, 0)
       [] l = "res2_conv2" -> Param(1, 1)
       [] l = "res2_conv3" -> Param(1, -2)
       [] l = "res2_skip"  -> Param(-1, 0)
       [] l = "fc1"        -> Param(-1, 0)
       [] l = "fc3"        -> Param(2, -1)
       [] l = "fc1_1"      -> Param(-1, 1)
       [] l = "fc3_1"      -> Param(-2, 3)
       [] OTHER            -> Param(1, 0)]

ParamChoices == {ParamsA, ParamsB}

\* mean vectors a caller can pass to the constructor
MeanChoices == {<<1, -1>>, <<2, 0, -1>>, <<0, 1, 2, 3>>}

\* heights and widths of an input: the multiples of 8 up to MaxSide, the sizes
\* next to them and the sizes halfway between them
Sides == {n \in 1..MaxSide : n % OUTPUT_SUBSAMPLE \in {0, 1, 4, 7}}

Seeds == {0, 1}

\* what a caller passes to forward: the key from which Image draws the batch
InputKeys ==
  [seed : Seeds, B : 1..MaxBatch, C : 1..MaxChan, H : Sides, W : Sides]

SmallInputKeys ==
  {k \in InputKeys : k.C = 3 /\ k.H = OUTPUT_SUBSAMPLE /\ k.W = OUTPUT_SUBSAMPLE /\ k.seed = 0}

\* --------------------------------------------------------------- the state
VARIABLES
  heap,    \* the storages of the 1D tensors: heap[r] is the sequence of values
  net,     \* the Network instance: constructor position, parameters, buffer
  call,    \* call[t]: the locals and the position of forward call t
  writes,  \* how many writes the caller has made to the vector it passed
  seen     \* history: for every input key, the first output pair returned

vars == <<heap, net, call, writes, seen>>

\* the constructor's argument `mean` is storage 1
ArgRef == 1

NoParams == [l \in Layers |-> Param(0, 0)]

IdleCall ==
  [st |-> "idle", pc |-> 0, key |-> [seed |-> 0, B |-> 0, C |-> 0, H |-> 0, W |-> 0],
   inputs |-> NoT, batch_size |-> 0, x |-> NoT, res |-> NoT, sc |-> NoT,
   log_ng |-> NoT, normalizer |-> NoT, err |-> "",
   pre |-> [x |-> NoT, res |-> NoT],   \* history: x and res before the last statement
   sc0 |-> NoT]                        \* history: sc as fc3 produced it (line 91)

InitOver(T, M) ==
  /\ \E m \in M : heap = <<m>>
  /\ net = [pc |-> "new", params |-> NoParams, mean |-> 0,
            given |-> <<>>, params0 |-> NoParams, mean0 |-> <<>>]
  /\ call = [t \in T |-> IdleCall]
  /\ writes = 0
  /\ seen = <<>>

\* ---------------------------------------------------------- the constructor
\* lines 20-49: super().__init__() and the twenty nn.Conv2d layers
CtorLayers ==
  /\ net.pc = "new"
  /\ \E P \in ParamChoices :
       net' = [net EXCEPT !.pc = "layers", !.params = P, !.params0 = P,
                          !.given = heap[ArgRef]]
  /\ UNCHANGED <<heap, call, writes, seen>>

\* line 52: self.register_buffer('mean', torch.tensor(mean.size()).cuda())
CtorRegisterBuffer ==
  /\ net.pc = "layers"
  /\ LET r == SizeTensor(heap, ArgRef)
     IN  /\ heap' = r.heap
         /\ net' = [net EXCEPT !.pc = "registered", !.mean = r.ref]
  /\ UNCHANGED <<call, writes, seen>>

\* line 53: self.mean = mean.clone()
CtorStoreMean ==
  /\ net.pc = "registered"
  /\ LET r == CloneTensor(heap, ArgRef)
     IN  /\ heap' = r.heap
         /\ net' = [net EXCEPT !.pc = "ready", !.mean = r.ref, !.mean0 = r.heap[r.ref]]
  /\ UNCHANGED <<call, writes, seen>>

\* the caller, after the constructor has returned, writes in place to the
\* vector it passed (mean += 1)
CallerWrite ==
  /\ net.pc = "ready"
  /\ writes < MaxWrites
  /\ heap' = [heap EXCEPT ![ArgRef] = [i \in DOMAIN @ |-> @[i] + 1]]
  /\ writes' = writes + 1
  /\ UNCHANGED <<net, call, seen>>

\* ---------------------------------------------------------------- forward
Raise(t, kind) ==
  call' = [call EXCEPT ![t].st = "raised", ![t].err = kind]

\* forward(inputs) is called
Call(t, K) ==
  /\ net.pc = "ready"
  /\ call[t].st = "idle"
  /\ \E k \in K :
       call' = [call EXCEPT ![t] = [IdleCall EXCEPT !.st = "running", !.pc = 62, !.key = k,
                                      !.inputs = Image(k.seed, k.B, k.C, k.H, k.W)]]
  /\ UNCHANGED <<heap, net, writes, seen>>

\* lines 62-64: batch_size = inputs.size(0); x = inputs
Enter(t) ==
  /\ call[t].st = "running" /\ call[t].pc = 62
  /\ call' = [call EXCEPT ![t].batch_size = call[t].inputs.shape[1],
                          ![t].x = call[t].inputs,
                          ![t].pc = NextLine(62)]
  /\ UNCHANGED <<heap, net, writes, seen>>

\* the value of [F.relu](self.layer(src[.detach()])) on line n
ConvValue(n, c) ==
  LET src == IF IsDetached(n) THEN Detach(c[ConvSrc(n)]) ELSE c[ConvSrc(n)]
      out == Conv(ConvLayer(n), net.params, src)
  IN  IF HasRelu(n) THEN Relu(out) ELSE out

\* conv2d accepts the input: the channels match and the padded input is not
\* smaller than the kernel
ConvAccepts(n, c) ==
  LET L == LayerSpec(ConvLayer(n))
      t == c[ConvSrc(n)]
  IN  /\ ChannelsMatch(ConvLayer(n), t)
      /\ t.shape[3] + 2 * L.p >= L.k
      /\ t.shape[4] + 2 * L.p >= L.k

\* lines 65-68, 70-72, 76-78, 82-84, 89-91, 98-100
ConvStep(t) ==
  /\ call[t].st = "running" /\ call[t].pc \in ConvLines
  /\ LET n == call[t].pc
         c == call[t]
     IN  IF ConvAccepts(n, c)
         THEN call' = [call EXCEPT ![t] = [c EXCEPT ![ConvDst(n)] = ConvValue(n, c),
                                             !.pre = [x |-> c.x, res |-> c.res],
                                             !.pc = NextLine(n)]]
         ELSE Raise(t, "ShapeMismatch")
  /\ UNCHANGED <<heap, net, writes, seen>>

\* lines 74, 86: res = res + x; line 80: res = self.res2_skip(res) + x
AddStep(t) ==
  /\ call[t].st = "running" /\ call[t].pc \in AddLines
  /\ LET n == call[t].pc
         c == call[t]
         lhs == IF n = 80 THEN Conv("res2_skip", net.params, c.res) ELSE c.res
     IN  call' = [call EXCEPT ![t].res = Add(lhs, c.x),
                              ![t].pre = [x |-> c.x, res |-> c.res],
                              ![t].pc = NextLine(n)]
  /\ UNCHANGED <<heap, net, writes, seen>>

\* lines 93-95: sc[:, k] += self.mean[k]
MeanStep(t) ==
  /\ call[t].st = "running" /\ call[t].pc \in MeanLines
  /\ LET n == call[t].pc
         k == MeanIndex(n)
     IN  IF k <= Len(heap[net.mean])
         THEN LET r == InPlaceAdd(call[t].sc, heap[net.mean], k)
              IN  /\ call' = [call EXCEPT ![t].sc = r.sc, ![t].pc = NextLine(n),
                                           ![t].sc0 = IF n = 93 THEN call[t].sc ELSE @]
                  /\ heap' = [heap EXCEPT ![net.mean] = r.mean]
         ELSE /\ Raise(t, "IndexError")
              /\ UNCHANGED heap
  /\ UNCHANGED <<net, writes, seen>>

\* line 103: log_ng = F.logsigmoid(log_ng)
LogSigmoidStep(t) ==
  /\ call[t].st = "running" /\ call[t].pc = 103
  /\ call' = [call EXCEPT ![t].log_ng = LogSigmoid(call[t].log_ng), ![t].pc = NextLine(103)]
  /\ UNCHANGED <<heap, net, writes, seen>>

\* line 104: log_ng = log_ng.view(-1)
FlattenStep(t) ==
  /\ call[t].st = "running" /\ call[t].pc = 104
  /\ call' = [call EXCEPT ![t].log_ng = ViewFlat(call[t].log_ng), ![t].pc = NextLine(104)]
  /\ UNCHANGED <<heap, net, writes, seen>>

\* line 106: normalizer = torch.logsumexp(log_ng, dim=0)
LogSumExpStep(t) ==
  /\ call[t].st = "running" /\ call[t].pc = 106
  /\ call' = [call EXCEPT ![t].normalizer = LogSumExp(call[t].log_ng), ![t].pc = NextLine(106)]
  /\ UNCHANGED <<heap, net, writes, seen>>

\* line 107: normalizer = normalizer.expand(log_ng.size(0))
ExpandStep(t) ==
  /\ call[t].st = "running" /\ call[t].pc = 107
  /\ call' = [call EXCEPT ![t].normalizer = Expand(call[t].normalizer, call[t].log_ng.shape[1]),
                          ![t].pc = NextLine(107)]
  /\ UNCHANGED <<heap, net, writes, seen>>

\* line 109: log_ng = log_ng - normalizer
SubtractStep(t) ==
  /\ call[t].st = "running" /\ call[t].pc = 109
  /\ call' = [call EXCEPT ![t].log_ng = LogSub(call[t].log_ng, call[t].normalizer),
                          ![t].pc = NextLine(109)]
  /\ UNCHANGED <<heap, net, writes, seen>>

\* line 110: log_ng = log_ng.view(batch_size, 1, sc.shape[2], sc.shape[3])
ReshapeStep(t) ==
  /\ call[t].st = "running" /\ call[t].pc = 110
  /\ LET c == call[t]
     IN  IF ViewOk(c.log_ng, c.batch_size, 1, c.sc.shape[3], c.sc.shape[4])
         THEN call' = [call EXCEPT ![t].log_ng =
                                      View4(c.log_ng, c.batch_size, 1, c.sc.shape[3], c.sc.shape[4]),
                                   ![t].pc = NextLine(110)]
         ELSE Raise(t, "ShapeMismatch")
  /\ UNCHANGED <<heap, net, writes, seen>>

\* what forward returns
Output(c) == [sc |-> c.sc, log_ng |-> c.log_ng]

\* line 112: return sc, log_ng
Return(t) ==
  /\ call[t].st = "running" /\ call[t].pc = 112
  /\ call' = [call EXCEPT ![t].st = "returned"]
  /\ seen' = IF call[t].key \in DOMAIN seen THEN seen
             ELSE seen @@ (call[t].key :> Output(call[t]))
  /\ UNCHANGED <<heap, net, writes>>

\* the caller drops the result (or the exception) of call t; forward can be
\* called again
Drop(t) ==
  /\ call[t].st \in {"returned", "raised"}
  /\ call' = [call EXCEPT ![t] = IdleCall]
  /\ UNCHANGED <<heap, net, writes, seen>>

Forward(t) ==
  \/ Enter(t)
  \/ ConvStep(t)
  \/ AddStep(t)
  \/ MeanStep(t)
  \/ LogSigmoidStep(t)
  \/ FlattenStep(t)
  \/ LogSumExpStep(t)
  \/ ExpandStep(t)
  \/ SubtractStep(t)
  \/ ReshapeStep(t)
  \/ Return(t)

Ctor == CtorLayers \/ CtorRegisterBuffer \/ CtorStoreMean

\* one instance, one forward call on any input, a caller that may write to
\* the vector it passed
Init == InitOver({1}, MeanChoices)

Next ==
  \/ Ctor
  \/ CallerWrite
  \/ Call(1, InputKeys)
  \/ Forward(1)

Spec == Init /\ [][Next]_vars

\* one instance, two threads that call forward again and again on small inputs
InitConc == InitOver({1, 2}, {<<2, 0, -1>>})

NextConc ==
  \/ Ctor
  \/ \E t \in {1, 2} : Call(t, SmallInputKeys) \/ Forward(t) \/ Drop(t)

SpecConc == InitConc /\ [][NextConc]_vars

\* ------------------------------------------------------------ the claims
Returned(t) == call[t].st = "returned"

Raised(t) == call[t].st = "raised"

\* call t has executed line n
Past(t, n) == \/ Returned(t)
              \/ call[t].st \in {"running", "raised"} /\ call[t].pc > n

Aligned(k) == k.H % OUTPUT_SUBSAMPLE = 0 /\ k.W % OUTPUT_SUBSAMPLE = 0

\* the entries of batch element b of a B x 1 x h x w tensor, flattened
ImageEntries(g, b) ==
  [i \in 1..(g.shape[3] * g.shape[4]) |->
     g.val[b][1][((i - 1) \div g.shape[4]) + 1][((i - 1) % g.shape[4]) + 1]]

\* C1: the guidance tensor forward returns is normalized jointly over the whole
\* batch: on line 109 every entry of the normalizer is the one log-sum-exp of
\* all B*h*w log-sigmoid values, and the exponentials of all entries of the
\* returned guidance tensor sum to 1.
C1_JointNormalization ==
  \A t \in DOMAIN call :
    LET c == call[t]
    IN  /\ c.st = "running" /\ c.pc = 109 =>
             /\ Len(c.log_ng.val) = c.key.B * c.sc.shape[3] * c.sc.shape[4]
             /\ Len(c.normalizer.val) = Len(c.log_ng.val)
             /\ \A i \in DOMAIN c.normalizer.val : c.normalizer.val[i] = RSum(c.log_ng.val)
        /\ Returned(t) => RSum(ViewFlat(c.log_ng).val) = ROne

C1_Witness ==
  \E t \in DOMAIN call :
    /\ Returned(t)
    /\ call[t].key.B = 2 /\ call[t].key.H = 16 /\ call[t].key.W = 16
    /\ call[t].log_ng.val[1][1][1][1] # call[t].log_ng.val[1][1][1][2]
    /\ call[t].log_ng.val[1] # call[t].log_ng.val[2]

\* C2: in every guidance tensor forward returns, the exponentials of the
\* entries of each batch element separately sum to 1.
C2_PerImageNormalization ==
  \A t \in DOMAIN call :
    Returned(t) =>
      \A b \in 1..call[t].key.B : RSum(ImageEntries(call[t].log_ng, b)) = ROne

\* C3: for an input of shape (B, 3, H, W) with H and W multiples of 8, the stem
\* subsamples by exactly 8, no later layer changes the spatial size, and forward
\* returns sc of shape (B, 3, H/8, W/8) and log_ng of shape (B, 1, H/8, W/8);
\* the call raises only on a network whose mean has fewer than 3 components.
C3_OutputShapes ==
  \A t \in DOMAIN call :
    LET c == call[t]
        h == c.key.H \div OUTPUT_SUBSAMPLE
        w == c.key.W \div OUTPUT_SUBSAMPLE
    IN  c.key.C = 3 /\ Aligned(c.key) =>
          /\ Past(t, 68) => c.res.shape[1] = c.key.B /\ c.res.shape[3] = h /\ c.res.shape[4] = w
          /\ Past(t, 91) => c.sc.shape = <<c.key.B, 3, h, w>>
          /\ c.st = "running" /\ c.pc \in {103, 104, 112} =>
               c.log_ng.shape = <<c.key.B, 1, h, w>>
          /\ Returned(t) => /\ c.sc.shape = <<c.key.B, 3, h, w>>
                            /\ c.log_ng.shape = <<c.key.B, 1, h, w>>
          /\ Raised(t) => c.err = "IndexError" /\ Len(heap[net.mean]) < 3

C3_Witness ==
  \E t \in DOMAIN call :
    /\ Returned(t)
    /\ call[t].key.B = 2 /\ call[t].key.H = 16 /\ call[t].key.W = 8
    /\ call[t].sc.shape = <<2, 3, 2, 1>>
    /\ call[t].log_ng.shape = <<2, 1, 2, 1>>

\* C4 (as claimed): constructing the network with a mean vector whose length
\* is not 3 fails; no network instance is produced for such a mean.
C4_RejectsBadMean == Len(heap[ArgRef]) # 3 => net.pc # "ready"

\* C4 (amended): the constructor checks no length.  Whatever the length of the
\* mean, every constructor step can be taken until the instance is ready, and
\* the instance then holds the vector as it was given.  A mean with fewer than
\* 3 components makes forward raise IndexError on the line (93-95) that reads
\* the first missing component, and such a call never returns.
C4_NoLengthCheck ==
  /\ net.pc # "ready" => ENABLED Ctor
  /\ net.pc = "ready" => heap[net.mean] = net.given
  /\ \A t \in DOMAIN call :
       /\ Raised(t) /\ call[t].err = "IndexError" =>
            /\ Len(net.given) < 3
            /\ call[t].pc = 93 + Len(net.given)
       /\ Returned(t) => Len(net.given) >= 3

C4_Witness ==
  /\ net.pc = "ready"
  /\ Len(heap[net.mean]) = 2
  /\ \E t \in DOMAIN call : Raised(t) /\ call[t].err = "IndexError" /\ call[t].pc = 95

\* C5: a forward call whose input does not have 3 channels raises
\* ShapeMismatch on line 65 (the first convolution): it executes no later
\* line, returns nothing, and leaves no partial result and no state change.
C5_ChannelMismatchRaises ==
  \A t \in DOMAIN call :
    LET c == call[t]
    IN  c.st # "idle" /\ c.key.C # 3 =>
          /\ \/ c.st = "running" /\ c.pc \in {62, 65}
             \/ c.st = "raised" /\ c.pc = 65 /\ c.err = "ShapeMismatch"
          /\ c.res = NoT /\ c.sc = NoT /\ c.log_ng = NoT /\ c.normalizer = NoT
          /\ c.x \in {NoT, c.inputs}
          /\ net.params = net.params0
          /\ heap[net.mean] = net.mean0
          /\ seen = <<>>

C5_Witness ==
  \E t \in DOMAIN call :
    /\ Raised(t) /\ call[t].err = "ShapeMismatch" /\ call[t].pc = 65
    /\ call[t].key.C = 4

\* C6 (as claimed): a forward call with a 3-channel input whose height or
\* width is not a multiple of 8 raises ShapeMismatch before or during the
\* first convolution and never returns an output pair.
C6_RejectsUnaligned ==
  \A t \in DOMAIN call :
    LET c == call[t]
    IN  c.st # "idle" /\ c.key.C = 3 /\ ~Aligned(c.key) =>
          \/ c.st = "running" /\ c.pc \in {62, 65}
          \/ c.st = "raised" /\ c.pc = 65 /\ c.err = "ShapeMismatch"

\* C6 (amended): a forward call with a 3-channel input whose height or width
\* is not a multiple of 8 raises no ShapeMismatch: it returns sc of shape
\* (B, 3, ceil(H/8), ceil(W/8)) and log_ng of shape (B, 1, ceil(H/8), ceil(W/8)).
C6_UnalignedRoundsUp ==
  \A t \in DOMAIN call :
    LET c == call[t]
        h == (c.key.H + OUTPUT_SUBSAMPLE - 1) \div OUTPUT_SUBSAMPLE
        w == (c.key.W + OUTPUT_SUBSAMPLE - 1) \div OUTPUT_SUBSAMPLE
    IN  c.key.C = 3 /\ ~Aligned(c.key) =>
          /\ c.err # "ShapeMismatch"
          /\ Past(t, 68) => c.res.shape[3] = h /\ c.res.shape[4] = w
          /\ Returned(t) => /\ c.sc.shape = <<c.key.B, 3, h, w>>
                            /\ c.log_ng.shape = <<c.key.B, 1, h, w>>

C6_Witness ==
  \E t \in DOMAIN call :
    /\ Returned(t)
    /\ call[t].key.C = 3 /\ call[t].key.H = 9 /\ call[t].key.W = 4
    /\ call[t].sc.shape = <<call[t].key.B, 3, 2, 1>>

\* C7: forward only reads the parameters and the stored mean: under any
\* interleaving of forward calls of two threads, called again and again, they
\* keep their construction-time values, no tensor storage is added, and every
\* call that returns gives the output pair that the first call on the same
\* input gave, the same as any other returned call on that input.
C7_ForwardIsPure ==
  /\ net.pc = "ready" =>
       /\ net.params = net.params0
       /\ heap[net.mean] = net.mean0
       /\ Len(heap) = 3
  /\ \A t \in DOMAIN call :
       Returned(t) => /\ call[t].key \in DOMAIN seen
                      /\ Output(call[t]) = seen[call[t].key]
  /\ \A t, u \in DOMAIN call :
       Returned(t) /\ Returned(u) /\ call[t].key = call[u].key =>
         Output(call[t]) = Output(call[u])

C7_Witness ==
  /\ Cardinality(DOMAIN seen) >= 2
  /\ Returned(1) /\ Returned(2)
  /\ call[1].key = call[2].key
  /\ \E k \in DOMAIN seen : k # call[1].key /\ seen[k] # seen[call[1].key]

\* C8: the constructor stores a copy of the mean it is given, in a storage of
\* its own: whatever the caller writes to its vector afterwards, the stored
\* mean is the vector as it was given, and the scene coordinates forward
\* produces are the head's output plus the components of that vector.
C8_MeanIsACopy ==
  /\ net.pc = "ready" =>
       /\ net.mean # ArgRef
       /\ heap[net.mean] = net.given
  /\ \A t \in DOMAIN call :
       Past(t, 95) =>
         \A b \in DOMAIN call[t].sc.val : \A k \in DOMAIN call[t].sc.val[b] :
           \A y \in DOMAIN call[t].sc.val[b][k] : \A x \in DOMAIN call[t].sc.val[b][k][y] :
             call[t].sc.val[b][k][y][x] = call[t].sc0.val[b][k][y][x] + net.given[k]

C8_Witness ==
  /\ writes > 0
  /\ heap[ArgRef] # net.given
  /\ \E t \in DOMAIN call : Returned(t) /\ call[t].sc.val # call[t].sc0.val

\* the third convolution of residual block 2 applied to the block input r,
\* before any nonlinearity
Res2Raw(r) ==
  Conv("res2_conv3", net.params,
       Relu(Conv("res2_conv2", net.params,
                 Relu(Conv("res2_conv1", net.params, r)))))

\* C9 (as claimed): the output of residual block 2 is the skip projection of
\* the block input plus the raw, un-rectified output of the third convolution.
C9_Res2AddsRawConv ==
  \A t \in DOMAIN call :
    call[t].st = "running" /\ call[t].pc = 82 =>
      call[t].res.val =
        Add(Conv("res2_skip", net.params, call[t].pre.res), Res2Raw(call[t].pre.res)).val

\* C9 (amended): the rectifying nonlinearity follows all three convolutions of
\* residual block 2: the block output is the skip projection of the block
\* input plus the rectified output of the third convolution, with no
\* nonlinearity after the add.
C9_Res2AddsRectifiedConv ==
  \A t \in DOMAIN call :
    call[t].st = "running" /\ call[t].pc = 82 =>
      call[t].res.val =
        Add(Conv("res2_skip", net.params, call[t].pre.res),
            Relu(Res2Raw(call[t].pre.res))).val

C9_Witness ==
  \E t \in DOMAIN call :
    /\ call[t].st = "running" /\ call[t].pc = 82
    /\ \E b \in DOMAIN call[t].res.val : \E c \in DOMAIN call[t].res.val[b] :
         /\ Res2Raw(call[t].pre.res).val[b][c][1][1] < 0
         /\ call[t].x.val[b][c][1][1] = 0
    /\ \E b \in DOMAIN call[t].res.val : \E c \in DOMAIN call[t].res.val[b] :
         call[t].res.val[b][c][1][1] < 0

\* C10: the guidance head reads the block-3 output through a detached copy:
\* no backward path leads from the guidance tensor (or its normalizer) to a
\* stem, residual-block or head-A parameter, the backward path from the scene
\* coordinates reaches every stem, residual-block and head-A parameter, and
\* both heads are fed the same forward value, the block-3 output.
C10_GradientBlockade ==
  \A t \in DOMAIN call :
    LET c == call[t]
    IN  /\ c.log_ng.grad \subseteq HeadBLayers
        /\ c.normalizer.grad \subseteq HeadBLayers
        /\ Past(t, 91) => c.sc.grad = StemLayers \cup ResLayers \cup HeadALayers
        /\ Returned(t) => c.log_ng.grad = HeadBLayers
        /\ c.st = "running" /\ c.pc = 90 =>
             c.sc.val = Relu(Conv("fc1", net.params, c.res)).val
        /\ c.st = "running" /\ c.pc = 99 =>
             c.log_ng.val = Relu(Conv("fc1_1", net.params, c.res)).val

C10_Witness ==
  \E t \in DOMAIN call :
    /\ Returned(t)
    /\ call[t].log_ng.grad = HeadBLayers
    /\ "conv1" \in call[t].sc.grad /\ "res3_conv3" \in call[t].res.grad

====
